---------------------------- MODULE Spec2Model ----------------------------
(***************************************************************************)
(* Model of utils/brawl_maps.py: the map-rotation table MAP_ROTATION, the  *)
(* selector pick_unique_mode_maps (with _normalise_count) and the          *)
(* formatter format_rotation_message.                                      *)
(*                                                                         *)
(* Strings are TLA+ strings.  The module's non-ASCII characters are        *)
(* written with one ASCII character each (the em dash of the announcement  *)
(* line as "-", accented letters without their accent), so lengths and     *)
(* positions are those of the source strings.                              *)
(*                                                                         *)
(* A random source is modelled by the log of the draws made on it: a       *)
(* sample or a choice appends one entry and its result is any value the    *)
(* library call can return.                                                *)
(***************************************************************************)
EXTENDS Integers, Sequences, FiniteSets, TLC

VARIABLES
    MAP_ROTATION,     \* the rotation table, as the list of its items
    pc,               \* per caller: position in pick_unique_mode_maps
    count,            \* per caller: the count argument
    rng,              \* per caller: the rng argument (None or a generator)
    available_modes,  \* per caller: local of pick_unique_mode_maps
    normalised,       \* per caller: local of pick_unique_mode_maps
    selected_modes,   \* per caller: local of pick_unique_mode_maps
    selection,        \* per caller: local of pick_unique_mode_maps
    result,           \* per caller: <<>> or <<the returned tuple>>
    error,            \* per caller: <<>> or <<the exception raised>>
    message,          \* per caller: <<>> or <<the formatted string>>
    draws             \* per random source: the log of its draws

vars == <<MAP_ROTATION, pc, count, rng, available_modes, normalised,
          selected_modes, selection, result, error, message, draws>>

-----------------------------------------------------------------------------
(* Bounds of the model. *)

\* Tables of the general specification have at most MaxModes modes.
MaxModes == 2
\* Maps kept per mode in the tables of the general specification.
MaxMaps == 2
\* Largest in-range count a caller passes (count = number of modes + 1 is
\* always tried as well).
MaxCount == 4
\* Longest selection handed to format_rotation_message on its own.
MaxSelLen == 3

-----------------------------------------------------------------------------
(* Data: MapDefinition and MAP_ROTATION. *)

None == "None"

Min(a, b) == IF a <= b THEN a ELSE b

Range(s) == {s[i] : i \in DOMAIN s}

\* dataclass MapDefinition(mode, map_name, emoji)
MapDefinition(mode, map_name, emoji) ==
    [mode |-> mode, map_name |-> map_name, emoji |-> emoji]

\* The literal of the module: list(MAP_ROTATION.items()) in insertion order.
MAP_ROTATION_LITERAL ==
    << <<"Razzia de gemmes",
         [emoji |-> "<:GemGrab:1436473738765008976>",
          maps  |-> <<"Mine hard-rock", "Tunnel de mine", "Bruissements">>]>>,
       <<"Brawlball",
         [emoji |-> "<:Brawlball:1436473735573143562>",
          maps  |-> <<"Tir au buts", "Super plage", "Triple Dribble">>]>>,
       <<"Hors-jeu",
         [emoji |-> "<:KnockOut:1436473703083937914>",
          maps  |-> <<"Rocher de la belle", "Ravin du bras d'or", "A decouvert">>]>>,
       <<"Braquage",
         [emoji |-> "<:Heist:1436473730812481546>",
          maps  |-> <<"C'est chaud patate", "Arret au stand", "Zone securisee">>]>>,
       <<"Zone reservee",
         [emoji |-> "<:HotZone:1436473698491175137>",
          maps  |-> <<"Duel de scarabees", "Cercle de feu", "Strategies paralleles">>]>>,
       <<"Prime",
         [emoji |-> "<:Bounty:1436473727519948962>",
          maps  |-> <<"Cachette secrete", "Etoile filante", "Mille-feuille">>]>> >>

\* payload.get(key, default)
Get(payload, key, default) ==
    IF key \in DOMAIN payload THEN payload[key] ELSE default

-----------------------------------------------------------------------------
(* Tables the general specification starts from: the first n modes of the  *)
(* literal with their first MaxMaps maps, where at most one mode, e, has   *)
(* an empty map list ("empty") or no "maps" key at all ("missing").        *)

TableEntry(i, e, how) ==
    LET item == MAP_ROTATION_LITERAL[i]
        maps == item[2].maps
    IN  IF i # e
        THEN <<item[1], [emoji |-> item[2].emoji,
                         maps  |-> SubSeq(maps, 1, Min(MaxMaps, Len(maps)))]>>
        ELSE IF how = "empty"
             THEN <<item[1], [emoji |-> item[2].emoji, maps |-> <<>>]>>
             ELSE <<item[1], [emoji |-> item[2].emoji]>>

TableOf(n, e, how) == [i \in 1..n |-> TableEntry(i, e, how)]

Tables ==
    {TableOf(n, 0, "empty") : n \in 0..Min(MaxModes, Len(MAP_ROTATION_LITERAL))}
    \cup UNION {{TableOf(n, e, how) : e \in 1..n, how \in {"empty", "missing"}} :
                    n \in 1..Min(MaxModes, Len(MAP_ROTATION_LITERAL))}

-----------------------------------------------------------------------------
(* Callers and random sources. *)

\* Independent call sites.
Callers == {1, 2}

\* The random.Random instance a caller may pass as rng.
GeneratorOf(c) == IF c = 1 THEN "Random1" ELSE "Random2"

\* The module-level generator of the random module.
GlobalRandom == "random"

Sources == {GlobalRandom} \cup {GeneratorOf(c) : c \in Callers}

\* count: int = 3
DefaultCount == 3

\* The counts a caller passes against a table of n modes.
CountInputs(n) == ((0 - 1)..Min(MaxCount, n)) \cup {n + 1, DefaultCount}

ValueError(msg) == [type |-> "ValueError", msg |-> msg]

-----------------------------------------------------------------------------
(* _normalise_count(count, available): the exception it raises, or the     *)
(* count it returns.                                                       *)

\* Variant: a count above the number of modes is clamped to it, not rejected.
normalise_count_clamped(cnt, available) ==
    IF cnt <= 0
    THEN [raised |-> <<ValueError("count must be strictly positive")>>, value |-> 0]
    ELSE IF available <= 0
    THEN [raised |-> <<ValueError("no map modes configured")>>, value |-> 0]
    ELSE [raised |-> <<>>, value |-> Min(cnt, available)]

\* Variant: the table is checked before the count.
normalise_count_table_first(cnt, available) ==
    IF available <= 0
    THEN [raised |-> <<ValueError("no map modes configured")>>, value |-> 0]
    ELSE IF cnt <= 0
    THEN [raised |-> <<ValueError("count must be strictly positive")>>, value |-> 0]
    ELSE IF cnt > available
    THEN [raised |-> <<ValueError("requested map count exceeds the number of modes")>>,
          value |-> 0]
    ELSE [raised |-> <<>>, value |-> cnt]

normalise_count(cnt, available) ==
    IF cnt <= 0
    THEN [raised |-> <<ValueError("count must be strictly positive")>>, value |-> 0]
    ELSE IF available <= 0
    THEN [raised |-> <<ValueError("no map modes configured")>>, value |-> 0]
    ELSE IF cnt > available
    THEN [raised |-> <<ValueError("requested map count exceeds the number of modes")>>,
          value |-> 0]
    ELSE [raised |-> <<>>, value |-> cnt]

\* random_source = rng or random
RandomSource(r) == IF r = None THEN GlobalRandom ELSE r

\* Variant: k draws with replacement (random.choices).
SampleResultsWithReplacement(population, k) ==
    {[i \in 1..k |-> population[f[i]]] : f \in [1..k -> DOMAIN population]}

\* random_source.sample(population, k=k): every list of k items taken from
\* k distinct positions of the population.
SampleResults(population, k) ==
    {[i \in 1..k |-> population[f[i]]] :
        f \in {g \in [1..k -> DOMAIN population] :
                  \A i, j \in 1..k : i # j => g[i] # g[j]}}

\* random_source.choice(maps): any element of the sequence.
ChoiceResults(maps) == Range(maps)

\* The log entry of a draw: the operation, what it drew from, how many, and
\* what it returned (modes are logged by name).
SampleEntry(population, k, out) ==
    [op |-> "sample", population |-> [i \in DOMAIN population |-> population[i][1]],
     k |-> k, out |-> [i \in DOMAIN out |-> out[i][1]]]

ChoiceEntry(maps, out) ==
    [op |-> "choice", population |-> maps, k |-> 1, out |-> <<out>>]

\* Variant: the map is drawn on the module-level generator (random.choice).
ChoiceSourceGlobal(random_source) == GlobalRandom

\* The source line 99 draws the map on.
ChoiceSource(random_source) == random_source

\* Variant: mode and map name passed in each other's place.
BuildDefinitionSwapped(mode, chosen, emoji) == MapDefinition(chosen, mode, emoji)

\* MapDefinition(mode=mode, map_name=chosen, emoji=emoji)
BuildDefinition(mode, chosen, emoji) == MapDefinition(mode, chosen, emoji)

\* selection.append(item)
AppendItem(sel, item) == Append(sel, item)

\* Variant: return tuple(reversed(selection)).
ReturnValueReversed(sel) == [i \in DOMAIN sel |-> sel[Len(sel) + 1 - i]]

\* return tuple(selection)
ReturnValue(sel) == sel

-----------------------------------------------------------------------------
(* format_rotation_message *)

\* f"{item.emoji} **{item.mode}** - {item.map_name}"
Chunk(item) == item.emoji \o " **" \o item.mode \o "** - " \o item.map_name

\* Variant: every chunk is followed by the separator.
RECURSIVE JoinTrailing(_, _)
JoinTrailing(sep, chunks) ==
    IF chunks = <<>> THEN ""
    ELSE chunks[1] \o sep \o JoinTrailing(sep, Tail(chunks))

\* sep.join(chunks)
RECURSIVE Join(_, _)
Join(sep, chunks) ==
    IF chunks = <<>> THEN ""
    ELSE IF Len(chunks) = 1 THEN chunks[1]
    ELSE chunks[1] \o sep \o Join(sep, Tail(chunks))

format_rotation_message(sel) ==
    Join("\n", [i \in DOMAIN sel |-> Chunk(sel[i])])

\* raise ValueError(f"mode '{mode}' has no maps configured")
NoMapsMessage(mode) == "mode '" \o mode \o "' has no maps configured"

\* Variant: no defensive check, choice() fails on the empty sequence.
NoMapsErrorFromChoice(mode) ==
    [type |-> "IndexError", msg |-> "Cannot choose from an empty sequence"]

NoMapsError(mode) == ValueError(NoMapsMessage(mode))

-----------------------------------------------------------------------------
(* Initial states. *)

InitCallers ==
    /\ pc = [c \in Callers |-> "idle"]
    /\ count = [c \in Callers |-> 0]
    /\ rng = [c \in Callers |-> None]
    /\ available_modes = [c \in Callers |-> <<>>]
    /\ normalised = [c \in Callers |-> 0]
    /\ selected_modes = [c \in Callers |-> <<>>]
    /\ selection = [c \in Callers |-> <<>>]
    /\ result = [c \in Callers |-> <<>>]
    /\ error = [c \in Callers |-> <<>>]
    /\ message = [c \in Callers |-> <<>>]
    /\ draws = [s \in Sources |-> <<>>]

\* Any table of the bounded family, nobody has called yet.
Init ==
    /\ MAP_ROTATION \in Tables
    /\ InitCallers

\* The module as shipped.
InitShipped ==
    /\ MAP_ROTATION = MAP_ROTATION_LITERAL
    /\ InitCallers

-----------------------------------------------------------------------------
(* pick_unique_mode_maps(count=cnt, rng=r), step by step. *)

\* Variant: the generator is used (a shuffle) before the count is validated.
CallDrawsFirst(c, cnt, r) ==
    /\ pc[c] = "idle"
    /\ LET items == MAP_ROTATION
           n == normalise_count(cnt, Len(items))
       IN  /\ count' = [count EXCEPT ![c] = cnt]
           /\ rng' = [rng EXCEPT ![c] = r]
           /\ available_modes' = [available_modes EXCEPT ![c] = items]
           /\ draws' = [draws EXCEPT ![RandomSource(r)] =
                           Append(@, [op |-> "shuffle",
                                      population |-> [i \in DOMAIN items |-> items[i][1]],
                                      k |-> Len(items),
                                      out |-> [i \in DOMAIN items |-> items[i][1]]])]
           /\ IF n.raised # <<>>
              THEN /\ error' = [error EXCEPT ![c] = n.raised]
                   /\ pc' = [pc EXCEPT ![c] = "raised"]
                   /\ UNCHANGED normalised
              ELSE /\ normalised' = [normalised EXCEPT ![c] = n.value]
                   /\ pc' = [pc EXCEPT ![c] = "sample"]
                   /\ UNCHANGED error
    /\ UNCHANGED <<MAP_ROTATION, selected_modes, selection, result, message>>

\* Lines 87-88: list the table's items and validate the count.
Call(c, cnt, r) ==
    /\ pc[c] = "idle"
    /\ LET items == MAP_ROTATION
           n == normalise_count(cnt, Len(items))
       IN  /\ count' = [count EXCEPT ![c] = cnt]
           /\ rng' = [rng EXCEPT ![c] = r]
           /\ available_modes' = [available_modes EXCEPT ![c] = items]
           /\ IF n.raised # <<>>
              THEN /\ error' = [error EXCEPT ![c] = n.raised]
                   /\ pc' = [pc EXCEPT ![c] = "raised"]
                   /\ UNCHANGED normalised
              ELSE /\ normalised' = [normalised EXCEPT ![c] = n.value]
                   /\ pc' = [pc EXCEPT ![c] = "sample"]
                   /\ UNCHANGED error
    /\ UNCHANGED <<MAP_ROTATION, selected_modes, selection, result, message, draws>>

\* Variant: the table's own item list is reordered in place and its first
\* k items taken.
SampleShufflesTable(c) ==
    /\ pc[c] = "sample"
    /\ LET random_source == RandomSource(rng[c])
           n == Len(available_modes[c])
       IN  \E perm \in SampleResults(available_modes[c], n) :
              LET out == SubSeq(perm, 1, normalised[c])
              IN  /\ MAP_ROTATION' = perm
                  /\ selected_modes' = [selected_modes EXCEPT ![c] = out]
                  /\ draws' = [draws EXCEPT ![random_source] =
                                  Append(@, SampleEntry(available_modes[c], normalised[c], out))]
    /\ selection' = [selection EXCEPT ![c] = <<>>]
    /\ pc' = [pc EXCEPT ![c] = "loop"]
    /\ UNCHANGED <<count, rng, available_modes, normalised, result, error, message>>

\* Lines 89-93: choose the random source and sample the modes.
Sample(c) ==
    /\ pc[c] = "sample"
    /\ LET random_source == RandomSource(rng[c])
       IN  \E out \in SampleResults(available_modes[c], normalised[c]) :
              /\ selected_modes' = [selected_modes EXCEPT ![c] = out]
              /\ draws' = [draws EXCEPT ![random_source] =
                              Append(@, SampleEntry(available_modes[c], normalised[c], out))]
    /\ selection' = [selection EXCEPT ![c] = <<>>]
    /\ pc' = [pc EXCEPT ![c] = "loop"]
    /\ UNCHANGED <<MAP_ROTATION, count, rng, available_modes, normalised,
                   result, error, message>>

\* Lines 94-102: one iteration of the loop over selected_modes; the return
\* follows the last iteration.
LoopStep(c) ==
    /\ pc[c] = "loop"
    /\ Len(selection[c]) < Len(selected_modes[c])
    /\ LET random_source == RandomSource(rng[c])
           item == selected_modes[c][Len(selection[c]) + 1]
           mode == item[1]
           payload == item[2]
           maps == Get(payload, "maps", <<>>)
           emoji == Get(payload, "emoji", "")
       IN  IF maps = <<>>
           THEN /\ error' = [error EXCEPT ![c] =
                                <<NoMapsError(mode)>>]
                /\ pc' = [pc EXCEPT ![c] = "raised"]
                /\ UNCHANGED <<selection, result, draws>>
           ELSE \E chosen \in ChoiceResults(maps) :
                  LET sel == AppendItem(selection[c], BuildDefinition(mode, chosen, emoji))
                  IN  /\ draws' = [draws EXCEPT ![ChoiceSource(random_source)] =
                                      Append(@, ChoiceEntry(maps, chosen))]
                      /\ selection' = [selection EXCEPT ![c] = sel]
                      /\ IF Len(sel) = Len(selected_modes[c])
                         THEN /\ result' = [result EXCEPT ![c] = <<ReturnValue(sel)>>]
                              /\ pc' = [pc EXCEPT ![c] = "returned"]
                         ELSE UNCHANGED <<result, pc>>
                      /\ UNCHANGED error
    /\ UNCHANGED <<MAP_ROTATION, count, rng, available_modes, normalised,
                   selected_modes, message>>

\* format_rotation_message(selection) on the tuple the caller holds.
Format(c) ==
    /\ pc[c] = "returned"
    /\ message' = [message EXCEPT ![c] = <<format_rotation_message(result[c][1])>>]
    /\ pc' = [pc EXCEPT ![c] = "formatted"]
    /\ UNCHANGED <<MAP_ROTATION, count, rng, available_modes, normalised,
                   selected_modes, selection, result, error, draws>>

-----------------------------------------------------------------------------
(* Specifications. *)

\* Two independent call sites, each with its own generator, on any table
\* of the bounded family.
Next ==
    \E c \in Callers :
        \/ \E cnt \in CountInputs(Len(MAP_ROTATION)) : Call(c, cnt, GeneratorOf(c))
        \/ Sample(c)
        \/ LoopStep(c)
        \/ Format(c)

Spec == Init /\ [][Next]_vars

\* One call site on the shipped table, with or without a generator.
NextShipped ==
    \/ \E cnt \in CountInputs(Len(MAP_ROTATION)), r \in {None, GeneratorOf(1)} :
          Call(1, cnt, r)
    \/ Sample(1)
    \/ LoopStep(1)
    \/ Format(1)

SpecShipped == InitShipped /\ [][NextShipped]_vars

\* format_rotation_message on its own: the selection is any sequence of at
\* most MaxSelLen MapDefinitions (it need not come from the selector).
TestDefinitions ==
    {MapDefinition("Mode A", "Carte 1", "<:A:1>"),
     MapDefinition("Mode B", "Carte 2", "<:B:2>"),
     MapDefinition("Brawlball", "Super plage", "<:Brawlball:1436473735573143562>"),
     MapDefinition("", "", ""),
     MapDefinition("Mode C", "Carte\n3", "<:C:3>")}

TestSelections == UNION {[1..n -> TestDefinitions] : n \in 0..MaxSelLen}

InitFormat ==
    /\ MAP_ROTATION = MAP_ROTATION_LITERAL
    /\ pc = [c \in Callers |-> IF c = 1 THEN "returned" ELSE "idle"]
    /\ \E sel \in TestSelections :
          result = [c \in Callers |-> IF c = 1 THEN <<sel>> ELSE <<>>]
    /\ count = [c \in Callers |-> 0]
    /\ rng = [c \in Callers |-> None]
    /\ available_modes = [c \in Callers |-> <<>>]
    /\ normalised = [c \in Callers |-> 0]
    /\ selected_modes = [c \in Callers |-> <<>>]
    /\ selection = [c \in Callers |-> <<>>]
    /\ error = [c \in Callers |-> <<>>]
    /\ message = [c \in Callers |-> <<>>]
    /\ draws = [s \in Sources |-> <<>>]

NextFormat == Format(1)

SpecFormat == InitFormat /\ [][NextFormat]_vars

-----------------------------------------------------------------------------
(* Vocabulary of the properties. *)

Returned(c) == pc[c] \in {"returned", "formatted"}

Raised(c) == pc[c] = "raised"

Terminal(c) == Returned(c) \/ Raised(c)

NumModes == Len(MAP_ROTATION)

ModeNames(items) == [i \in DOMAIN items |-> items[i][1]]

\* The table invariant: every mode has a non-empty map list.
TableInvariant(table) ==
    \A i \in DOMAIN table :
        "maps" \in DOMAIN table[i][2] /\ table[i][2].maps # <<>>

MapsOf(item) == IF "maps" \in DOMAIN item[2] THEN item[2].maps ELSE <<>>

CountRejected(cnt) == cnt <= 0 \/ cnt > NumModes

\* The random source caller c's call draws on.
SourceOf(c) == IF rng[c] = None THEN GlobalRandom ELSE rng[c]

IsNoMapsError(e) ==
    \E i \in DOMAIN MAP_ROTATION : e.msg = NoMapsMessage(MAP_ROTATION[i][1])

\* s.split("\n"): the pieces of s between its newline characters.
Lines(s) ==
    LET nl == {i \in 1..Len(s) : SubSeq(s, i, i) = "\n"}
        k == Cardinality(nl)
        pos(j) == IF j = 0 THEN 0
                  ELSE IF j = k + 1 THEN Len(s) + 1
                  ELSE CHOOSE i \in nl : Cardinality({x \in nl : x <= i}) = j
    IN  [j \in 1..(k + 1) |-> SubSeq(s, pos(j - 1) + 1, pos(j) - 1)]

-----------------------------------------------------------------------------
(* C1 *)

\* C1: a call that returns returns exactly count entries, and their modes
\* are pairwise distinct (1 <= count <= number of modes, any draws).
C1_CountDistinctModes ==
    \A c \in Callers :
        Returned(c) =>
            /\ 1 <= count[c] /\ count[c] <= NumModes
            /\ Len(result[c][1]) = count[c]
            /\ \A i, j \in DOMAIN result[c][1] :
                  i # j => result[c][1][i].mode # result[c][1][j].mode

\* A call with count = number of modes >= 2 has returned.
C1_Witness ==
    \E c \in Callers :
        Returned(c) /\ count[c] = NumModes /\ NumModes >= 2

-----------------------------------------------------------------------------
(* C2 *)

\* C2: every returned MapDefinition is consistent with the rotation table:
\* its mode is a key, its map_name is one of that mode's maps and its emoji
\* is that mode's emoji.
C2_ConsistentWithTable ==
    \A c \in Callers :
        Returned(c) =>
            \A k \in DOMAIN result[c][1] :
                \E i \in DOMAIN MAP_ROTATION :
                    /\ MAP_ROTATION[i][1] = result[c][1][k].mode
                    /\ result[c][1][k].map_name \in Range(MAP_ROTATION[i][2].maps)
                    /\ result[c][1][k].emoji = MAP_ROTATION[i][2].emoji

\* The default call (count = 3) has returned a map that is not the first of
\* its mode's list.
C2_Witness ==
    /\ Returned(1)
    /\ count[1] = DefaultCount
    /\ \E k \in DOMAIN result[1][1], i \in DOMAIN MAP_ROTATION :
          /\ MAP_ROTATION[i][1] = result[1][1][k].mode
          /\ result[1][1][k].map_name = MAP_ROTATION[i][2].maps[3]

-----------------------------------------------------------------------------
(* C3 *)

\* C3: on a table whose modes all have maps, a call fails, with ValueError
\* and no result, exactly when count <= 0 or count > number of modes (every
\* count when the table is empty); any other call raises nothing.
C3_ValueErrorIffCountRejected ==
    TableInvariant(MAP_ROTATION) =>
        \A c \in Callers :
            pc[c] # "idle" =>
                /\ Raised(c) <=> CountRejected(count[c])
                /\ Raised(c) => /\ Len(error[c]) = 1
                                /\ error[c][1].type = "ValueError"
                                /\ result[c] = <<>>
                /\ ~Raised(c) => error[c] = <<>>
                /\ Terminal(c) /\ ~CountRejected(count[c]) => Len(result[c]) = 1

\* Both rejections and an acceptance at once: on a non-empty table with the
\* invariant one caller was rejected for count = number of modes + 1 and
\* the other returned.
C3_Witness ==
    /\ TableInvariant(MAP_ROTATION)
    /\ NumModes >= 1
    /\ \E c, d \in Callers :
          /\ Raised(c) /\ count[c] = NumModes + 1
          /\ Returned(d) /\ count[d] = NumModes

-----------------------------------------------------------------------------
(* C4 *)

\* C4: two calls with the same count whose random sources made the same
\* draws end the same way: identical returned tuples (same order) or the
\* same error.
C4_SameDrawsSameOutcome ==
    \A c, d \in Callers :
        (/\ Terminal(c) /\ Terminal(d)
         /\ count[c] = count[d]
         /\ draws[SourceOf(c)] = draws[SourceOf(d)])
        => /\ result[c] = result[d]
           /\ error[c] = error[d]

\* Two callers returned after making the same draws, the first choice not
\* being the first map of its list.
C4_Witness ==
    /\ Returned(1) /\ Returned(2)
    /\ count[1] = count[2] /\ count[1] >= 2
    /\ draws[SourceOf(1)] = draws[SourceOf(2)]
    /\ draws[SourceOf(1)][2].out # <<draws[SourceOf(1)][2].population[1]>>

-----------------------------------------------------------------------------
(* C5 *)

ExpectedLine(item) ==
    item.emoji \o " **" \o item.mode \o "** - " \o item.map_name

\* Where the i-th line starts in the message, less one: the lengths of the
\* lines before it and one newline after each of them.
RECURSIVE LineOffset(_, _)
LineOffset(sel, i) ==
    IF i = 1 THEN 0
    ELSE LineOffset(sel, i - 1) + Len(ExpectedLine(sel[i - 1])) + 1

HasNewline(s) == \E i \in 1..Len(s) : SubSeq(s, i, i) = "\n"

\* C5: the message of an empty selection is the empty string; the message
\* of n >= 1 items is exactly its n lines in input order, the i-th being
\* "{emoji} **{mode}** - {map_name}" of the i-th item, with one newline
\* between consecutive lines and nothing before the first or after the last
\* (when no field holds a newline itself, splitting the message at newlines
\* gives exactly these n lines).
C5_FormatLines ==
    \A c \in Callers :
        pc[c] = "formatted" =>
            LET sel == result[c][1]
                msg == message[c][1]
                n == Len(sel)
            IN  /\ sel = <<>> => msg = ""
                /\ sel # <<>> =>
                      /\ Len(msg) = LineOffset(sel, n) + Len(ExpectedLine(sel[n]))
                      /\ \A i \in 1..n :
                            SubSeq(msg, LineOffset(sel, i) + 1,
                                   LineOffset(sel, i) + Len(ExpectedLine(sel[i])))
                               = ExpectedLine(sel[i])
                      /\ \A i \in 2..n :
                            SubSeq(msg, LineOffset(sel, i), LineOffset(sel, i)) = "\n"
                /\ (sel # <<>> /\ \A i \in 1..n : ~HasNewline(ExpectedLine(sel[i])))
                      => Lines(msg) = [i \in 1..n |-> ExpectedLine(sel[i])]
                /\ sel = <<MapDefinition("Mode A", "Carte 1", "<:A:1>"),
                           MapDefinition("Mode B", "Carte 2", "<:B:2>")>>
                   => msg = "<:A:1> **Mode A** - Carte 1\n<:B:2> **Mode B** - Carte 2"

\* A selection of three items, not all alike, has been formatted.
C5_Witness ==
    /\ pc[1] = "formatted"
    /\ Len(result[1][1]) = 3
    /\ result[1][1][1] # result[1][1][2]
    /\ result[1][1][2] # result[1][1][3]

-----------------------------------------------------------------------------
(* C6 *)

\* C6: the returned tuple is in sample order: it is as long as the sample
\* and its i-th mode is the i-th mode the sample returned.
C6_SampleOrder ==
    \A c \in Callers :
        Returned(c) =>
            /\ draws[SourceOf(c)] # <<>>
            /\ draws[SourceOf(c)][1].op = "sample"
            /\ [i \in DOMAIN result[c][1] |-> result[c][1][i].mode]
                  = draws[SourceOf(c)][1].out

\* A call returned two modes sampled against the table's order.
C6_Witness ==
    \E c \in Callers :
        /\ Returned(c)
        /\ Len(result[c][1]) = 2
        /\ result[c][1][1].mode = MAP_ROTATION[2][1]
        /\ result[c][1][2].mode = MAP_ROTATION[1][1]

-----------------------------------------------------------------------------
(* C7 *)

\* C7 as stated: whether a call fails, and with which error, is fixed by
\* count and the table alone (two calls with the same count on the same
\* table fail alike, whatever they draw).
C7_ErrorFixedByCountAndTable ==
    \A c, d \in Callers :
        (Terminal(c) /\ Terminal(d) /\ count[c] = count[d])
        => error[c] = error[d]

\* The first sampled mode without maps, if any.
FirstWithoutMaps(sample) ==
    LET bad == {i \in DOMAIN sample : MapsOf(sample[i]) = <<>>}
    IN  IF bad = {} THEN 0 ELSE CHOOSE i \in bad : \A j \in bad : i <= j

\* The error count, the table and the sampled modes determine.
ExpectedError(cnt, sample) ==
    IF cnt <= 0 THEN <<ValueError("count must be strictly positive")>>
    ELSE IF NumModes <= 0 THEN <<ValueError("no map modes configured")>>
    ELSE IF cnt > NumModes
    THEN <<ValueError("requested map count exceeds the number of modes")>>
    ELSE IF FirstWithoutMaps(sample) = 0 THEN <<>>
    ELSE <<ValueError(NoMapsMessage(sample[FirstWithoutMaps(sample)][1]))>>

\* C7, amended: whether a call fails, and with which error, is fixed by
\* count, the table and the modes the sample drew: the count errors by count
\* and the table alone, the missing-maps error by the first sampled mode
\* whose map list is empty; on a table whose modes all have maps the outcome
\* is fixed by count and the table alone.
C7_ErrorFixedByCountTableAndSample ==
    /\ \A c \in Callers :
          Terminal(c) => error[c] = ExpectedError(count[c], selected_modes[c])
    /\ \A c, d \in Callers :
          (/\ Terminal(c) /\ Terminal(d) /\ count[c] = count[d]
           /\ TableInvariant(MAP_ROTATION) \/ selected_modes[c] = selected_modes[d])
          => error[c] = error[d]

\* Same count, same table: one call failed on a mode without maps, the
\* other returned.
C7_Witness ==
    \E c, d \in Callers :
        /\ count[c] = count[d]
        /\ Raised(c) /\ IsNoMapsError(error[c][1])
        /\ Returned(d)

-----------------------------------------------------------------------------
(* C8 *)

\* C8: no step of any call, successful or not, changes the rotation table;
\* a step changes no random source but the one the stepping caller draws
\* from, and only while that caller samples or chooses.
C8_TableReadOnly ==
    [][/\ MAP_ROTATION' = MAP_ROTATION
       /\ \A s \in Sources :
             draws'[s] # draws[s] =>
                \E c \in Callers :
                    /\ s = SourceOf(c)
                    /\ pc[c] \in {"sample", "loop"}
                    /\ pc'[c] # pc[c] \/ selection'[c] # selection[c]]_vars

\* Interleaved callers: one failed, the other returned and formatted.
C8_Witness ==
    \E c, d \in Callers :
        /\ Raised(c)
        /\ pc[d] = "formatted"
        /\ NumModes = 2

-----------------------------------------------------------------------------
(* C9 *)

\* C9: a call whose sample contains a mode with an empty map list fails
\* with ValueError and returns nothing, whatever it had already built; on a
\* table whose modes all have maps, as the shipped one, that error never
\* occurs.
C9_NoMapsError ==
    /\ TableInvariant(MAP_ROTATION_LITERAL)
    /\ \A c \in Callers :
          /\ Returned(c) => FirstWithoutMaps(selected_modes[c]) = 0
          /\ (Terminal(c) /\ FirstWithoutMaps(selected_modes[c]) # 0) =>
                /\ Raised(c)
                /\ error[c][1].type = "ValueError"
                /\ IsNoMapsError(error[c][1])
                /\ result[c] = <<>>
                /\ message[c] = <<>>
          /\ (Raised(c) /\ ~CountRejected(count[c])) =>
                /\ FirstWithoutMaps(selected_modes[c]) # 0
                /\ ~TableInvariant(MAP_ROTATION)

\* A call failed on its second mode, after building an entry for the first.
C9_Witness ==
    \E c \in Callers :
        /\ Raised(c)
        /\ FirstWithoutMaps(selected_modes[c]) = 2
        /\ Len(selection[c]) = 1

-----------------------------------------------------------------------------
(* C10 *)

\* The draws of a successful call: one sample of count modes, then one
\* choice per returned entry, in order, among that mode's maps.
ExpectedDraws(c) ==
    LET res == result[c][1]
    IN  <<[op |-> "sample", population |-> ModeNames(MAP_ROTATION),
           k |-> count[c], out |-> [i \in DOMAIN res |-> res[i].mode]]>>
        \o [i \in DOMAIN res |->
               [op |-> "choice", population |-> MapsOf(selected_modes[c][i]),
                k |-> 1, out |-> <<res[i].map_name>>]]

\* C10: a call rejected for its count has made no draw on its random
\* source; a call that returned has made exactly one sample draw of count
\* modes and then count choice draws, one per chosen mode in sample order.
C10_ValidationBeforeDraws ==
    \A c \in Callers :
        /\ (pc[c] # "idle" /\ CountRejected(count[c])) =>
              /\ Raised(c)
              /\ draws[SourceOf(c)] = <<>>
        /\ Returned(c) =>
              /\ Len(draws[SourceOf(c)]) = 1 + count[c]
              /\ draws[SourceOf(c)] = ExpectedDraws(c)
              /\ ModeNames(selected_modes[c]) = draws[SourceOf(c)][1].out

\* One caller was rejected for a non-positive count while the other
\* returned two entries.
C10_Witness ==
    \E c, d \in Callers :
        /\ Raised(c) /\ count[c] <= 0
        /\ Returned(d) /\ count[d] = 2

=============================================================================
